---------------------------- MODULE Spec2Model ----------------------------
(***************************************************************************)
(* A model of the pressure-vessel engine (src/pressurevessels/             *)
(* PressureVessels.py, class Vessel) and of the diameter sweep that drives *)
(* one shared Vessel (src/pressurevessels/gui.py, check_diameters).        *)
(*                                                                         *)
(* Numbers.  Python floats are modelled as fixed-point decimals: the       *)
(* integer n stands for the real n / Scale.  Every arithmetic operation of *)
(* the source is one operator here (Mul, Div, Sqrt, ...) that rounds its   *)
(* result toward zero, as a float operation rounds its result.  Division   *)
(* by a zero divisor raises ZeroDivisionError in Python (for ints and for  *)
(* floats alike); the model records it in the variable raised and leaves   *)
(* every field the method had not yet assigned as it was.                  *)
(*                                                                         *)
(* The margin factor k is kept as the exact decimal literal of the source  *)
(* (a pair <<numerator, denominator>>), so that 0.666666 and 2/3 differ.   *)
(*                                                                         *)
(* Inputs.  The pressure sets are chosen so that pExt = pInt happens only  *)
(* at 0: there every product is exactly 0 in floating point as well, so    *)
(* the zero divisor of the model is the zero divisor of the program.  For  *)
(* equal nonzero pressures the rounding of the float quotients decides     *)
(* whether the stress is exactly 0, which no integer model reproduces.     *)
(***************************************************************************)
EXTENDS Integers, FiniteSets, Sequences, TLC

VARIABLES
    v,       \* the Vessel object: its six inputs and its derived fields
    live,    \* TRUE once a constructor call has returned an object
    raised,  \* the exception the last call ended with, or "none"
    call     \* the last call made: its name, what it was given and returned

vars == <<v, live, raised, call>>

---------------------------------------------------------------------------
\* Bounds of the model

\* fixed-point resolution: n stands for n / Scale
Scale == 100
\* internal pressures range over -1 .. 2*MaxP-1 units
MaxP == 1
\* diameters are 0 or 2 .. MaxDia units: (3, 2) is a wall thin enough for the
\* average-stress check to govern, (2, 0) and (3, 0) are thick ones
MaxDia == 3
\* a modify_parameters call names at most MaxNamed keyword arguments
MaxNamed == 2

InputFields == {"pExt", "pInt", "OD", "ID", "yieldstress", "deratedyieldstress"}

\* external pressures: 0 and an even unit below it (a vacuum outside);
\* internal pressures: 0 and odd units
PExtVals == {-2 * Scale, 0}
PIntVals == {0} \cup {(2 * i - 1) * Scale : i \in 0..MaxP}
DiaVals == {0} \cup {i * Scale : i \in 2..MaxDia}
YieldVals == {0, 12 * Scale}
DeratedVals == {11 * Scale}

Vals(f) ==
    CASE f = "pExt" -> PExtVals
      [] f = "pInt" -> PIntVals
      [] f = "OD" -> DiaVals
      [] f = "ID" -> DiaVals
      [] f = "yieldstress" -> YieldVals
      [] f = "deratedyieldstress" -> DeratedVals

---------------------------------------------------------------------------
\* Fixed-point arithmetic (Python float operators)

Abs(x) == IF x < 0 THEN -x ELSE x

Sgn(x) == IF x < 0 THEN -1 ELSE IF x > 0 THEN 1 ELSE 0

\* n / d rounded toward zero, d # 0
Trunc(n, d) == Sgn(n) * Sgn(d) * (Abs(n) \div Abs(d))

\* a * b
Mul(a, b) == Trunc(a * b, Scale)

\* a / b, for b # 0 (b = 0 raises ZeroDivisionError: see the callers)
Div(a, b) == Trunc(a * Scale, b)

Max(a, b) == IF a >= b THEN a ELSE b

Min(a, b) == IF a <= b THEN a ELSE b

RECURSIVE SqrtSearch(_, _, _)
\* the largest r in lo..hi with r * r <= n
SqrtSearch(n, lo, hi) ==
    IF lo >= hi THEN lo
    ELSE LET mid == (lo + hi + 1) \div 2
         IN IF mid * mid <= n THEN SqrtSearch(n, mid, hi)
            ELSE SqrtSearch(n, lo, mid - 1)

RECURSIVE SqrtBound(_, _)
\* a power of two h >= hi with h * h > n
SqrtBound(n, hi) == IF hi * hi > n THEN hi ELSE SqrtBound(n, 2 * hi)

\* math.sqrt(x) for x >= 0: sqrt(x / Scale) * Scale = sqrt(x * Scale)
Sqrt(x) == SqrtSearch(x * Scale, 0, SqrtBound(x * Scale, 1))

---------------------------------------------------------------------------
\* The Vessel object

ZeroDivisionError == "ZeroDivisionError"

\* the outcome of a method: the object as the method left it, and the
\* exception it raised
Ok(s) == [vessel |-> s, raised |-> "none"]

Raise(s) == [vessel |-> s, raised |-> ZeroDivisionError]

\* the object before __init__ has assigned anything (SFroom and SFderated
\* are the fields SF_room and SF_derated: SF_ is a reserved prefix)
Unbuilt ==
    [pExt |-> 0, pInt |-> 0, OD |-> 0, ID |-> 0,
     yieldstress |-> 0, deratedyieldstress |-> 0,
     external |-> FALSE, maxstress |-> 0, averagestress |-> 0,
     k |-> <<0, 1>>, SFroom |-> 0, SFderated |-> 0,
     maxExtroom |-> 0, maxIntroom |-> 0,
     maxExtderated |-> 0, maxIntderated |-> 0]

\* OD**2 - ID**2, the divisor of every Lame term
WallTerm(s) == Mul(s.OD, s.OD) - Mul(s.ID, s.ID)

\* a sign slip in the external-pressure term of the hoop stress
principalstressINT_SignSlip(s) ==
    LET OD2 == Mul(s.OD, s.OD)
        ID2 == Mul(s.ID, s.ID)
        hoop == Div(Mul(s.pInt, OD2 + ID2), OD2 - ID2)
                  + Div(Mul(2 * s.pExt, OD2), OD2 - ID2)
        axial == Div(Mul(s.pInt, ID2), OD2 - ID2)
                  - Div(Mul(s.pExt, OD2), OD2 - ID2)
        radial == -s.pInt
    IN <<hoop, axial, radial>>

principalstressINT(s) ==
    LET OD2 == Mul(s.OD, s.OD)
        ID2 == Mul(s.ID, s.ID)
        hoop == Div(Mul(s.pInt, OD2 + ID2), OD2 - ID2)
                  - Div(Mul(2 * s.pExt, OD2), OD2 - ID2)
        axial == Div(Mul(s.pInt, ID2), OD2 - ID2)
                  - Div(Mul(s.pExt, OD2), OD2 - ID2)
        radial == -s.pInt
    IN <<hoop, axial, radial>>

principalstressEXT(s) ==
    LET OD2 == Mul(s.OD, s.OD)
        ID2 == Mul(s.ID, s.ID)
        hoop == Div(Mul(2 * s.pInt, ID2), OD2 - ID2)
                  - Div(Mul(s.pExt, OD2 + ID2), OD2 - ID2)
        axial == Div(Mul(s.pInt, ID2), OD2 - ID2)
                  - Div(Mul(s.pExt, OD2), OD2 - ID2)
        radial == -s.pExt
    IN <<hoop, axial, radial>>

vonmises(p) ==
    LET s1 == p[1]
        s2 == p[2]
        s3 == p[3]
    IN Sqrt(Trunc(Mul(s1 - s2, s1 - s2) + Mul(s2 - s3, s2 - s3)
                    + Mul(s3 - s1, s3 - s1), 2))

safetyfactor(value, allowable) == Div(allowable, value)

get_stresses(s) ==
    IF WallTerm(s) = 0 THEN Raise(s)
    ELSE LET vmExt == vonmises(principalstressEXT(s))
             vmInt == vonmises(principalstressINT(s))
         IN Ok([s EXCEPT !.maxstress = Max(vmExt, vmInt),
                         !.averagestress = Trunc(vmExt + vmInt, 2)])

\* the literals of get_safetyfactors, as exact fractions
KExternal == <<80, 100>>

KInternal == <<666666, 1000000>>

\* allowable * k
TimesK(allowable, k) == Trunc(allowable * k[1], k[2])

\* the margin factor left out of the average-stress check
get_safetyfactors_NoMargin(s) ==
    LET s1 == [s EXCEPT !.k = IF s.external THEN KExternal ELSE KInternal]
    IN IF s1.maxstress = 0 \/ s1.averagestress = 0 THEN Raise(s1)
       ELSE Ok([s1 EXCEPT
                  !.SFroom =
                      Min(safetyfactor(s1.maxstress, s1.yieldstress),
                          safetyfactor(s1.averagestress, s1.yieldstress)),
                  !.SFderated =
                      Min(safetyfactor(s1.maxstress, s1.deratedyieldstress),
                          safetyfactor(s1.averagestress,
                                       s1.deratedyieldstress))])

get_safetyfactors(s) ==
    LET s1 == [s EXCEPT !.k = IF s.external THEN KExternal ELSE KInternal]
    IN IF s1.maxstress = 0 \/ s1.averagestress = 0 THEN Raise(s1)
       ELSE Ok([s1 EXCEPT
                  !.SFroom =
                      Min(safetyfactor(s1.maxstress, s1.yieldstress),
                          safetyfactor(s1.averagestress,
                                       TimesK(s1.yieldstress, s1.k))),
                  !.SFderated =
                      Min(safetyfactor(s1.maxstress, s1.deratedyieldstress),
                          safetyfactor(s1.averagestress,
                                       TimesK(s1.deratedyieldstress, s1.k)))])

\* the differential pressure taken without abs()
get_maxpressures_Signed(s) ==
    LET differentialpressure == s.pExt - s.pInt
    IN Ok([s EXCEPT !.maxExtroom = Mul(s.SFroom, differentialpressure),
                    !.maxIntroom = Mul(s.SFroom, differentialpressure),
                    !.maxExtderated = Mul(s.SFderated, differentialpressure),
                    !.maxIntderated = Mul(s.SFderated, differentialpressure)])

get_maxpressures(s) ==
    LET differentialpressure == Abs(s.pExt - s.pInt)
    IN Ok([s EXCEPT !.maxExtroom = Mul(s.SFroom, differentialpressure),
                    !.maxIntroom = Mul(s.SFroom, differentialpressure),
                    !.maxExtderated = Mul(s.SFderated, differentialpressure),
                    !.maxIntderated = Mul(s.SFderated, differentialpressure)])

calculate(s) ==
    LET s1 == [s EXCEPT !.external = (s.pExt > s.pInt)]
        o1 == get_stresses(s1)
        o2 == IF o1.raised # "none" THEN o1 ELSE get_safetyfactors(o1.vessel)
    IN IF o2.raised # "none" THEN o2 ELSE get_maxpressures(o2.vessel)

\* Vessel(pExt, pInt, OD, ID, yieldstress, deratedyieldstress)
Vessel(pExt, pInt, OD, ID, yieldstress, deratedyieldstress) ==
    calculate([Unbuilt EXCEPT !.pExt = pExt, !.pInt = pInt, !.OD = OD,
                              !.ID = ID, !.yieldstress = yieldstress,
                              !.deratedyieldstress = deratedyieldstress])

\* A keyword argument is <<FALSE, 0>> when it is left at its default None
\* and <<TRUE, x>> when x is passed.
Opt(f) == {<<FALSE, 0>>} \cup {<<TRUE, x>> : x \in Vals(f)}

Named(a) == {f \in InputFields : a[f][1]}

Args ==
    {a \in [pExt : Opt("pExt"), pInt : Opt("pInt"), OD : Opt("OD"),
            ID : Opt("ID"), yieldstress : Opt("yieldstress"),
            deratedyieldstress : Opt("deratedyieldstress")] :
        Cardinality(Named(a)) <= MaxNamed}

\* 'if x:' is false for None and for a zero
Truthy(o) == o[1] /\ o[2] # 0

\* every keyword assigned whether it was passed or not (a default of 0)
assign_parameters_Unconditional(s, a) ==
    [s EXCEPT !.pExt = a.pExt[2], !.pInt = a.pInt[2], !.OD = a.OD[2],
              !.ID = a.ID[2], !.yieldstress = a.yieldstress[2],
              !.deratedyieldstress = a.deratedyieldstress[2]]

\* the six 'if x: self.x = x' statements of modify_parameters
assign_parameters(s, a) ==
    [s EXCEPT
       !.pExt = IF Truthy(a.pExt) THEN a.pExt[2] ELSE @,
       !.pInt = IF Truthy(a.pInt) THEN a.pInt[2] ELSE @,
       !.OD = IF Truthy(a.OD) THEN a.OD[2] ELSE @,
       !.ID = IF Truthy(a.ID) THEN a.ID[2] ELSE @,
       !.yieldstress = IF Truthy(a.yieldstress) THEN a.yieldstress[2] ELSE @,
       !.deratedyieldstress =
           IF Truthy(a.deratedyieldstress) THEN a.deratedyieldstress[2]
           ELSE @]

\* the parameters changed and nothing recalculated
modify_parameters_NoRecalc(s, a) == Ok(assign_parameters(s, a))

modify_parameters(s, a) == calculate(assign_parameters(s, a))

NoArgs == [f \in InputFields |-> <<FALSE, 0>>]

\* the keywords passed in a carry the current values of s
SameValues(s, a) == \A f \in Named(a) : a[f][2] = s[f]

---------------------------------------------------------------------------
\* The calls a program makes

Init ==
    /\ v = Unbuilt
    /\ live = FALSE
    /\ raised = "none"
    /\ call = [op |-> "none"]

\* v = Vessel(...): the name is bound only when __init__ returns; until then
\* v shows the object as the last constructor call left it
Construct ==
    /\ ~live
    /\ \E pExt \in PExtVals, pInt \in PIntVals, OD \in DiaVals, ID \in DiaVals,
          yieldstress \in YieldVals, deratedyieldstress \in DeratedVals :
         \E o \in {Vessel(pExt, pInt, OD, ID, yieldstress,
                           deratedyieldstress)} :
            /\ raised' = o.raised
            /\ live' = (o.raised = "none")
            /\ v' = o.vessel
            /\ call' = [op |-> "Vessel"]

\* v.modify_parameters(**a).  An exception propagates out of the call and no
\* caller in the repository catches it (check_diameters and plot_range let it
\* end the sweep), so an object is not called again once a call has raised.
ModifyParameters ==
    /\ live /\ raised = "none"
    /\ \E a \in Args :
         \E o \in {modify_parameters(v, a)} :
            /\ v' = o.vessel
            /\ raised' = o.raised
            /\ call' = [op |-> "modify_parameters",
                        own |-> Named(a) # {} /\ SameValues(v, a),
                        changed |-> o.vessel # v]
    /\ UNCHANGED live

\* v.calculate()
Calculate ==
    /\ live /\ raised = "none"
    /\ \E o \in {calculate(v)} :
          /\ v' = o.vessel
          /\ raised' = o.raised
    /\ call' = [op |-> "calculate"]
    /\ UNCHANGED live

\* check_diameters(v, new_ID, new_OD)
CheckDiameters ==
    /\ live /\ raised = "none"
    /\ \E new_ID \in DiaVals, new_OD \in DiaVals :
         IF new_OD <= new_ID
         THEN /\ UNCHANGED v
              /\ raised' = "none"
              /\ call' = [op |-> "check_diameters", rejected |-> TRUE,
                          ret |-> 0]
         ELSE \E o \in {modify_parameters(v,
                           [NoArgs EXCEPT !.ID = <<TRUE, new_ID>>,
                                          !.OD = <<TRUE, new_OD>>])} :
                 /\ v' = o.vessel
                 /\ raised' = o.raised
                 /\ call' = [op |-> "check_diameters", rejected |-> FALSE,
                             new_ID |-> new_ID, new_OD |-> new_OD,
                             ret |-> IF o.raised = "none"
                                     THEN o.vessel.SFroom ELSE 0]
    /\ UNCHANGED live

Next == Construct \/ ModifyParameters \/ Calculate \/ CheckDiameters

Spec == Init /\ [][Next]_vars

---------------------------------------------------------------------------
\* Properties

DerivedFields ==
    {"external", "maxstress", "averagestress", "k", "SFroom", "SFderated",
     "maxExtroom", "maxIntroom", "maxExtderated", "maxIntderated"}

Derived(s) == [f \in DerivedFields |-> s[f]]

\* the object a fresh Vessel(...) call on the inputs of s ends with
Fresh(s) ==
    Vessel(s.pExt, s.pInt, s.OD, s.ID, s.yieldstress, s.deratedyieldstress)

\* the last call returned normally on a constructed object
Returned == live /\ raised = "none"

\* C1: after modify_parameters(**a), for any subset of the six inputs and any
\* values (zero included), every named input holds the supplied value and
\* every other input holds the value it had before the call.
C1_NamedInputsAssigned ==
    live =>
      \A a \in Args : \A f \in InputFields :
         modify_parameters(v, a).vessel[f] = IF a[f][1] THEN a[f][2] ELSE v[f]

\* C2: a call whose inputs end with OD <= ID ends in a failure, and no derived
\* field differs from its value before the call.
C2_InvalidGeometryFails ==
    [][(call'.op \in {"Vessel", "modify_parameters", "calculate"}
          /\ v'.OD <= v'.ID)
        => /\ raised' # "none"
           /\ call'.op # "Vessel" => Derived(v') = Derived(v)]_vars

\* C3: when the stress divisor is exactly zero under a valid geometry
\* (OD > ID), the recompute completes without raising, with maxstress = 0 and
\* averagestress = 0.
C3_ZeroStressCompletes ==
    (call.op # "none" /\ v.OD > v.ID /\ v.pExt = v.pInt)
      => (raised = "none" /\ v.maxstress = 0 /\ v.averagestress = 0)

\* C4: after construction and after any sequence of modify_parameters calls
\* that return normally, every derived field equals that of a fresh Vessel
\* built from the current six inputs.
C4_DerivedMatchFresh ==
    Returned => Fresh(v) = Ok(v)

C4_Witness ==
    /\ Returned
    /\ call.op = "modify_parameters" /\ call.changed
    /\ v.maxstress > 0 /\ v.maxExtroom > 0

\* C5: the load flag is true iff pExt > pInt, and k is 0.80 when the flag is
\* true and 2/3 otherwise.
C5_MarginFactor ==
    Returned =>
      /\ v.external = (v.pExt > v.pInt)
      /\ IF v.external THEN 100 * v.k[1] = 80 * v.k[2]
                       ELSE 3 * v.k[1] = 2 * v.k[2]

\* the margin factor the current load direction selects
MarginFactor(s) == IF s.pExt > s.pInt THEN KExternal ELSE KInternal

\* C6: for each temperature condition, SF = min(yield / maxstress,
\* (yield * k) / averagestress), k being the margin factor of the current
\* load direction.
C6_SafetyFactorFormula ==
    (Returned /\ v.maxstress # 0 /\ v.averagestress # 0) =>
      /\ v.SFroom =
           Min(Div(v.yieldstress, v.maxstress),
               Div(TimesK(v.yieldstress, MarginFactor(v)), v.averagestress))
      /\ v.SFderated =
           Min(Div(v.deratedyieldstress, v.maxstress),
               Div(TimesK(v.deratedyieldstress, MarginFactor(v)),
                   v.averagestress))

\* the average-stress check governs at room temperature
C6_Witness ==
    /\ Returned /\ call.op = "modify_parameters"
    /\ v.SFroom > 0 /\ v.SFderated > 0 /\ v.SFroom # v.SFderated
    /\ Div(TimesK(v.yieldstress, MarginFactor(v)), v.averagestress)
         < Div(v.yieldstress, v.maxstress)

C8_Idempotent ==
    Returned =>
      \A a \in Args : SameValues(v, a) => modify_parameters(v, a) = Ok(v)

C8_Witness ==
    /\ Returned
    /\ call.op = "modify_parameters" /\ call.own
    /\ v.maxstress > 0 /\ v.maxExtderated > 0

\* C9: for a valid geometry (OD > ID > 0) and a fixed pExt, raising pInt above
\* a value that already exceeds pExt does not lower maxstress.
C9_Monotone ==
    (Returned /\ v.OD > v.ID /\ v.ID > 0 /\ v.pInt > v.pExt) =>
      \A p2 \in PIntVals :
         p2 >= v.pInt =>
           get_stresses([v EXCEPT !.pInt = p2]).vessel.maxstress >= v.maxstress

C9_Witness ==
    /\ Returned /\ v.OD > v.ID /\ v.ID > 0 /\ v.pInt > v.pExt
    /\ \E p2 \in PIntVals :
         /\ p2 > v.pInt
         /\ get_stresses([v EXCEPT !.pInt = p2]).vessel.maxstress > v.maxstress

\* C10: the value check_diameters returns for a pair with new_OD > new_ID is
\* the SF_room of a fresh Vessel with exactly those diameters and the shared
\* vessel's pressures and yield stresses, whatever was evaluated before.
C10_SweepIndependent ==
    (call.op = "check_diameters" /\ ~call.rejected) =>
      LET fresh == Vessel(v.pExt, v.pInt, call.new_OD, call.new_ID,
                          v.yieldstress, v.deratedyieldstress)
      IN /\ raised = fresh.raised
         /\ raised = "none" => call.ret = fresh.vessel.SFroom

===========================================================================
